---- MODULE Spec2Model ----
(***************************************************************************)
(* HealthCareBot (src/Health_care_bot.py): the turn handler, the response  *)
(* parser and the Supabase persistence sequence, as a state machine.       *)
(*                                                                         *)
(* Text is a sequence of tokens.  The two markers are single tokens, the   *)
(* JSON punctuation is one token per character class:                      *)
(*   "U"  [USER_DATA_JSON]      "E"  [END_OF_PLAN]                         *)
(*   "L"  {    "R"  }    "C"  ,    "Q"  the double quote    "SP" blank     *)
(*   "Kn" "name":   "Ku" "user_id":   (a key with its colon)               *)
(*   "1" "2"  a digit: a JSON number inside an object, plain text outside  *)
(***************************************************************************)
EXTENDS Integers, Sequences, FiniteSets, Bags, TLC

VARIABLES
    supabase,              \* self.supabase is not None
    users,                 \* table users: user_id -> <<>> (no row) or <<row>>
    plan_history,          \* table plan_history: rows in insertion order
    conversation_history,  \* table conversation_history: a bag of rows
    chat_session,          \* context.user_data["chat_session"] per user, 0 = absent
    sessions_started,      \* number of model.start_chat() calls so far
    now,                   \* datetime.datetime.now(), a logical clock
    turn,                  \* the invocations of main_chat_handler in flight
    turns_started,         \* number of invocations started so far
    faults,                \* number of calls to a collaborator that have raised
    text,                  \* response parser alone: the text under analysis
    parsed,                \* response parser alone: the two extraction results
    env,                   \* which of the four values of .env are set
    model,                 \* self.model is not None
    process                \* how far the process has come: main, __init__, run

vars == <<supabase, users, plan_history, conversation_history, chat_session,
          sessions_started, now, turn, turns_started, faults, text, parsed,
          env, model, process>>

botVars == <<supabase, users, plan_history, conversation_history, chat_session,
             sessions_started, now, turn, turns_started, faults>>

parserVars == <<text, parsed>>

startupVars == <<env, model, process>>

(***************************************************************************)
(* Bounds                                                                  *)
(***************************************************************************)
MaxTurns == 2
MaxFaults == 2
MaxLen == 5

(***************************************************************************)
(* Python values                                                           *)
(***************************************************************************)
None == <<>>
Some(v) == <<v>>
EmptyDict == <<>>

Min(S) == CHOOSE m \in S : \A n \in S : m <= n

Keys == {"Kn", "Ku"}
Digits == {"1", "2"}

\* str.strip(): drop leading and trailing whitespace
RECURSIVE lstrip(_)
lstrip(s) == IF s # <<>> /\ Head(s) = "SP" THEN lstrip(Tail(s)) ELSE s

RECURSIVE rstrip(_)
rstrip(s) ==
    IF s # <<>> /\ s[Len(s)] = "SP" THEN rstrip(SubSeq(s, 1, Len(s) - 1)) ELSE s

strip(s) == rstrip(lstrip(s))

StartsWith(s, p) == Len(p) <= Len(s) /\ SubSeq(s, 1, Len(p)) = p

\* str.replace(old, ""): remove the non-overlapping occurrences, left to right
RECURSIVE replace(_, _)
replace(s, old) ==
    IF s = <<>> \/ old = <<>> THEN s
    ELSE IF StartsWith(s, old)
         THEN replace(SubSeq(s, Len(old) + 1, Len(s)), old)
         ELSE <<Head(s)>> \o replace(Tail(s), old)

\* old in s
Contains(s, old) ==
    \E i \in 1..(Len(s) - Len(old) + 1) : SubSeq(s, i, i + Len(old) - 1) = old

END_OF_PLAN == <<"E">>
USER_DATA_JSON == <<"U">>

(***************************************************************************)
(* json.loads on an object                                                 *)
(***************************************************************************)
RECURSIVE SkipSpace(_, _)
SkipSpace(s, i) ==
    IF i <= Len(s) /\ s[i] = "SP" THEN SkipSpace(s, i + 1) ELSE i

\* index after the string that opens at i, 0 when it is not terminated
StringEnd(s, i) ==
    LET closing == {j \in (i + 1)..Len(s) : s[j] = "Q"}
    IN  IF closing = {} THEN 0 ELSE Min(closing) + 1

\* index after the JSON value that starts at i, 0 when there is none
RECURSIVE ValueEnd(_, _)
RECURSIVE MembersEnd(_, _)
ValueEnd(s, i) ==
    IF i > Len(s) THEN 0
    ELSE IF s[i] \in Digits THEN i + 1
    ELSE IF s[i] = "Q" THEN StringEnd(s, i)
    ELSE IF s[i] = "L"
         THEN LET j == SkipSpace(s, i + 1)
              IN  IF j <= Len(s) /\ s[j] = "R" THEN j + 1 ELSE MembersEnd(s, j)
    ELSE 0

\* i is where a key is expected; index after the closing brace, or 0
MembersEnd(s, i) ==
    IF i > Len(s) THEN 0
    ELSE IF s[i] \notin Keys THEN 0
    ELSE LET e == ValueEnd(s, SkipSpace(s, i + 1))
         IN  IF e = 0 THEN 0
             ELSE LET k == SkipSpace(s, e)
                  IN  IF k > Len(s) THEN 0
                      ELSE IF s[k] = "R" THEN k + 1
                      ELSE IF s[k] = "C" THEN MembersEnd(s, SkipSpace(s, k + 1))
                      ELSE 0

\* a value without its insignificant whitespace
RECURSIVE Canon(_, _)
Canon(s, inString) ==
    IF s = <<>> THEN <<>>
    ELSE IF Head(s) = "Q" THEN <<"Q">> \o Canon(Tail(s), ~inString)
    ELSE IF Head(s) = "SP" /\ ~inString THEN Canon(Tail(s), inString)
    ELSE <<Head(s)>> \o Canon(Tail(s), inString)

\* the dict of the members from i on, of an object known to be well formed;
\* a repeated key keeps its last value
RECURSIVE MembersDict(_, _, _)
MembersDict(s, i, acc) ==
    LET v == SkipSpace(s, i + 1)
        e == ValueEnd(s, v)
        k == SkipSpace(s, e)
        acc2 == (s[i] :> Canon(SubSeq(s, v, e - 1), FALSE)) @@ acc
    IN  IF s[k] = "R" THEN acc2 ELSE MembersDict(s, SkipSpace(s, k + 1), acc2)

\* the dict of the well-formed object that starts at i
ObjectDict(s, i) ==
    LET j == SkipSpace(s, i + 1)
    IN  IF s[j] = "R" THEN EmptyDict ELSE MembersDict(s, j, EmptyDict)

\* json.loads(s): Some(dict), or None for json.JSONDecodeError
json_loads(s) ==
    LET i == SkipSpace(s, 1)
        e == IF i <= Len(s) /\ s[i] = "L" THEN ValueEnd(s, i) ELSE 0
    IN  IF e # 0 /\ SkipSpace(s, e) = Len(s) + 1
        THEN Some(ObjectDict(s, i))
        ELSE None

(***************************************************************************)
(* re.search(r"\[USER_DATA_JSON\]\s*(\{.*?\})", text, re.DOTALL)           *)
(***************************************************************************)
\* last index of the match that starts at i, 0 when none starts there
MatchEnd(s, i) ==
    IF s[i] # "U" THEN 0
    ELSE LET j == SkipSpace(s, i + 1)
         IN  IF j <= Len(s) /\ s[j] = "L"
             THEN LET closing == {k \in (j + 1)..Len(s) : s[k] = "R"}
                  IN  IF closing = {} THEN 0 ELSE Min(closing)
             ELSE 0

\* None, or Some of the leftmost match with its group 0 and group 1
re_search(s) ==
    LET starts == {i \in 1..Len(s) : MatchEnd(s, i) # 0}
    IN  IF starts = {} THEN None
        ELSE LET i == Min(starts)
                 k == MatchEnd(s, i)
             IN  Some([group0 |-> SubSeq(s, i, k),
                       group1 |-> SubSeq(s, SkipSpace(s, i + 1), k)])

(***************************************************************************)
(* Response parser                                                         *)
(***************************************************************************)
_extract_profile_json(s) ==
    LET match == re_search(s)
    IN  IF match # None THEN json_loads(match[1].group1) ELSE None

_extract_plan_text(s) ==
    LET plan_text == strip(replace(s, END_OF_PLAN))
        json_match == re_search(plan_text)
    IN  IF json_match # None
        THEN strip(strip(replace(plan_text, json_match[1].group0)))
        ELSE strip(plan_text)

\* Python truth value of an Optional[dict]: None and {} are both false
Truthy(opt) == opt # None /\ opt[1] # EmptyDict

(***************************************************************************)
(* Literals of the source                                                  *)
(***************************************************************************)
NULL == 0
Users == {"1", "2"}
\* run() builds the Application without concurrent updates: one handler at a time
TurnSlots == {1}
UserMessages == {<<"2", "SP", "1">>}

REMINDER_FIRST == <<"REMINDER: If generating a full wellness plan">>
REMINDER_LATER == <<"REMINDER: If the user is asking for a new or updated wellness PLAN">>
REMINDER_RETURNING == <<"REMINDER: If you generate a new wellness PLAN">>
REMINDER_NEW == <<"REMINDER: When you later generate a full wellness PLAN">>
Reminders == {REMINDER_FIRST, REMINDER_LATER, REMINDER_RETURNING, REMINDER_NEW}
NO_PREVIOUS_PLAN == <<"No previous plan found.">>
APOLOGY == <<"Sorry, I had a problem. Please try again in a moment.">>

\* what the model engine may answer
Responses ==
    { <<"U", "L", "Kn", "1", "R", "2">>,                       \* an answer, no terminal marker
      <<"SP", "2", "E", "SP">>,                                \* terminal marker, no payload
      <<"U", "L", "Kn", "R", "2", "E">>,                       \* payload does not parse
      <<"U", "SP", "L", "Kn", "1", "C", "Ku", "2", "R", "SP", "2", "E">>,  \* a plan
      <<"U", "L", "R", "1", "E">> }                            \* a plan, payload {}

(***************************************************************************)
(* Persistence                                                             *)
(***************************************************************************)
OpenPlans(ph, user_id) ==
    {i \in DOMAIN ph : ph[i].user_id = user_id /\ ph[i].end_date = NULL}

\* json.dumps(dict), keys in column order
json_dumps(d) ==
    LET member(k) == <<k, "SP">> \o d[k]
    IN  IF DOMAIN d = {} THEN <<"L", "R">>
        ELSE IF DOMAIN d = {"Kn"} THEN <<"L">> \o member("Kn") \o <<"R">>
        ELSE IF DOMAIN d = {"Ku"} THEN <<"L">> \o member("Ku") \o <<"R">>
        ELSE <<"L">> \o member("Kn") \o <<"C", "SP">> \o member("Ku") \o <<"R">>

\* _load_profile without the test of line 130: no row gives an empty profile
_load_profile_without_row_test(user_id, select_ok) ==
    IF ~supabase THEN None
    ELSE IF ~select_ok THEN None
    ELSE IF users[user_id] = None
         THEN Some([profile |-> EmptyDict, last_plan |-> NO_PREVIOUS_PLAN])
    ELSE LET open == OpenPlans(plan_history, user_id)
             latest == CHOOSE i \in open :
                           \A j \in open : plan_history[j].start_date <= plan_history[i].start_date
         IN  Some([profile |-> users[user_id][1],
                   last_plan |-> IF open # {} THEN plan_history[latest].plan_text
                                 ELSE NO_PREVIOUS_PLAN])

\* _load_profile: None, or Some of {"profile": ..., "last_plan": ...}
_load_profile(user_id, select_ok) ==
    IF ~supabase THEN None
    ELSE IF ~select_ok THEN None
    ELSE IF users[user_id] = None THEN None
    ELSE LET open == OpenPlans(plan_history, user_id)
             latest == CHOOSE i \in open :
                           \A j \in open : plan_history[j].start_date <= plan_history[i].start_date
         IN  Some([profile |-> users[user_id][1],
                   last_plan |-> IF open # {} THEN plan_history[latest].plan_text
                                 ELSE NO_PREVIOUS_PLAN])

\* _log_conversation: the senders of the rows the turn has inserted
Logged(logged, sender, insert_ok) ==
    IF supabase /\ insert_ok THEN Append(logged, sender) ELSE logged

\* _log_conversation: the table after the call
_log_conversation(user_id, sender, message, insert_ok) ==
    IF ~supabase THEN conversation_history
    ELSE IF ~insert_ok THEN conversation_history
    ELSE conversation_history (+)
             SetToBag({[user_id |-> user_id, sender |-> sender, message_text |-> message]})

\* {"user_id": user_id, **profile}: a user_id of the payload wins
ProfileToSavePayloadWins(user_id, profile) == profile @@ ("Ku" :> <<user_id>>)

\* lines 197-198: profile.copy() with "user_id" set to the sender's id
ProfileToSave(user_id, profile) == ("Ku" :> <<user_id>>) @@ profile

\* table("users").upsert(profile_to_save): the row with the primary key
\* profile_to_save["user_id"] is inserted or replaced
UpsertProfile(us, user_id, profile) ==
    LET profile_to_save == ProfileToSave(user_id, profile)
    IN  [us EXCEPT ![profile_to_save["Ku"][1]] = Some(profile_to_save)]

\* the update of lines 205-207 left out
CloseNoPlans(ph, user_id, now_iso) == ph

\* table("plan_history").update({"end_date": now_iso}).eq("user_id", ..).is_("end_date", None)
CloseOpenPlans(ph, user_id, now_iso) ==
    [i \in DOMAIN ph |->
        IF ph[i].user_id = user_id /\ ph[i].end_date = NULL
        THEN [ph[i] EXCEPT !.end_date = now_iso]
        ELSE ph[i]]

\* the insert of lines 210-218 with end_date set to now_iso
InsertEndedPlan(ph, user_id, profile, plan, now_iso) ==
    Append(ph, [user_id |-> user_id, plan_text |-> plan, profile_json |-> profile,
                start_date |-> now_iso, end_date |-> now_iso])

\* table("plan_history").insert({...})
InsertPlan(ph, user_id, profile, plan, now_iso) ==
    Append(ph, [user_id |-> user_id, plan_text |-> plan, profile_json |-> profile,
                start_date |-> now_iso, end_date |-> NULL])

\* how a call of save_new_plan_and_profile can go: every statement succeeds,
\* or one of the three requests raises and the rest is skipped
SaveOutcomes == {"ok", "upsert raises", "close raises", "insert raises"}

\* the requests a call issues, in order
SaveRequests(profile, outcome) ==
    IF ~supabase \/ profile = EmptyDict THEN <<>>
    ELSE IF outcome = "upsert raises" THEN <<"upsert">>
    ELSE IF outcome = "close raises" THEN <<"upsert", "close">>
    ELSE <<"upsert", "close", "insert">>

\* the call reaches logger.info of line 220
Saved(profile, outcome) == supabase /\ profile # EmptyDict /\ outcome = "ok"

save_new_plan_and_profile(user_id, profile, plan, outcome) ==
    IF ~supabase \/ profile = EmptyDict
    THEN UNCHANGED <<users, plan_history, now>>
    ELSE LET now_iso == now + 1
             upserted == UpsertProfile(users, user_id, profile)
             closed == CloseOpenPlans(plan_history, user_id, now_iso)
             inserted == InsertPlan(closed, user_id, profile, plan, now_iso)
         IN  /\ now' = now_iso
             /\ users' = IF outcome = "upsert raises" THEN users ELSE upserted
             /\ plan_history' =
                    IF outcome \in {"upsert raises", "close raises"} THEN plan_history
                    ELSE IF outcome = "insert raises" THEN closed
                    ELSE inserted

(***************************************************************************)
(* main_chat_handler, one action per stretch between two awaits            *)
(***************************************************************************)
IdleTurn ==
    [pc |-> "idle", user_id |-> "1", user_message |-> <<>>,
     created |-> FALSE,        \* this invocation ran the `if not chat_session` branch
     user_data |-> None, initial_prompt |-> <<>>,
     load_error |-> FALSE,     \* line 151 logged "Error loading profile"
     sent |-> <<>>,            \* the argument of send_message_async
     ai_message |-> <<>>, branch |-> "none",
     profile_json |-> None, plan_text |-> <<>>,
     reply |-> <<>>,           \* the argument of the pending reply_text
     replies |-> <<>>,         \* the texts reply_text has delivered
     save_calls |-> 0,         \* calls of save_new_plan_and_profile
     requests |-> <<>>,        \* requests to users and plan_history
     saved |-> FALSE,          \* line 220 logged "Saved new plan for user"
     failed |-> FALSE,         \* the except clause of line 302 was entered
     logged |-> <<>>,          \* senders of the rows inserted by _log_conversation
     log_errors |-> 0,         \* line 166 logged "Error logging conversation"
     raised |-> FALSE]         \* the handler ended with an exception

\* lines 255-268 with the `else` context built on both branches
InitialPromptNewUser(user_data, user_message) ==
    <<"SYSTEM_NOTE: Brand new user.", "Their first message:">> \o user_message
        \o REMINDER_NEW

\* lines 255-268: the priming context
InitialPrompt(user_data, user_message) ==
    IF user_data # None
    THEN LET profile == user_data[1].profile
             last_plan == user_data[1].last_plan
             name == IF "Kn" \in DOMAIN profile THEN profile["Kn"] ELSE <<"friend">>
         IN  <<"SYSTEM_NOTE: Returning user. Profile:">> \o json_dumps(profile)
                 \o <<"Last plan:">> \o last_plan
                 \o <<"Greet them by name">> \o name
                 \o <<"Their first message:">> \o user_message
                 \o REMINDER_RETURNING
    ELSE <<"SYSTEM_NOTE: Brand new user.", "Their first message:">> \o user_message
             \o REMINDER_NEW

\* lines 270-273: what the session-creating turn sends
FirstMessage(initial_prompt, user_message) == user_message \o REMINDER_FIRST

\* line 282 without the reminder
LaterMessageBare(user_message) == user_message

\* lines 277-282: what a later turn sends
LaterMessage(user_message) == user_message \o REMINDER_LATER

\* lines 287-300 without the test of line 287
BranchWithoutMarkerTest(ai_message) ==
    IF Truthy(_extract_profile_json(ai_message)) THEN "plan"
    ELSE IF Contains(ai_message, END_OF_PLAN) THEN "fallback"
    ELSE "plain"

\* lines 287-300: which way the response goes
Branch(ai_message) ==
    IF Contains(ai_message, END_OF_PLAN)
    THEN IF ~Truthy(_extract_profile_json(ai_message)) THEN "fallback" ELSE "plan"
    ELSE "plain"

\* lines 290, 298, 300 with line 290 not stripping
ReplyTextUnstripped(ai_message) ==
    IF Contains(ai_message, END_OF_PLAN)
    THEN IF ~Truthy(_extract_profile_json(ai_message))
         THEN replace(ai_message, END_OF_PLAN)
         ELSE strip(_extract_plan_text(ai_message))
    ELSE ai_message

\* lines 290, 298, 300: the text handed to reply_text
ReplyText(ai_message) ==
    IF Branch(ai_message) = "fallback" THEN strip(replace(ai_message, END_OF_PLAN))
    ELSE IF Branch(ai_message) = "plan" THEN strip(_extract_plan_text(ai_message))
    ELSE ai_message

\* lines 287-298 applied to each answer of the engine, evaluated once
Interpretation ==
    [r \in Responses |->
        [branch |-> Branch(r),
         profile_json |-> _extract_profile_json(r),
         plan_text |-> _extract_plan_text(r),
         reply |-> ReplyText(r)]]

\* line 244 left out: the new session is not kept
StoreNoSession(cs, user_id, session) == cs

\* line 244: context.user_data["chat_session"] = chat_session
StoreSession(cs, user_id, session) == [cs EXCEPT ![user_id] = session]

\* one user_data dict shared by all users, cleared as a whole
ClearAllUserData(cs, user_id) == [u \in DOMAIN cs |-> 0]

\* line 310: context.user_data.clear(), the dict of the user who sent /reset
ClearUserData(cs, user_id) == [cs EXCEPT ![user_id] = 0]

\* the try block is entered again after an exception
RetryOnException == "typing"

\* lines 302-303: an exception in the try block leads to the except clause
OnException == "apology"

\* an exception of the insert or of the save reaches the handler's try block
PersistenceRaises(insert_ok, outcome) ==
    IF insert_ok /\ outcome = "ok" THEN "reply" ELSE OnException

\* lines 165-166 and 221-222: _log_conversation and save_new_plan_and_profile
\* catch every Exception, so the handler goes on to its reply_text
AfterPersistence(insert_ok, outcome) == "reply"

\* a step in which n calls to a collaborator raise
Raise(n) == faults + n <= MaxFaults /\ faults' = faults + n

B2N(ok) == IF ok THEN 0 ELSE 1

\* lines 226-237, up to the await of send_chat_action
Start(t, user_id, user_message, insert_ok) ==
    /\ turn[t].pc = "idle"
    /\ \A other \in TurnSlots : other < t => turn[other].pc # "idle"
    /\ turns_started < MaxTurns
    /\ turns_started' = turns_started + 1
    /\ Raise(B2N(insert_ok))
    /\ conversation_history' = _log_conversation(user_id, "user", user_message, insert_ok)
    /\ turn' = [turn EXCEPT ![t] = [IdleTurn EXCEPT !.pc = "typing", !.user_id = user_id,
                                                    !.user_message = user_message,
                                                    !.logged = Logged(<<>>, "user", insert_ok),
                                                    !.log_errors = B2N(insert_ok)]]
    /\ UNCHANGED <<supabase, users, plan_history, chat_session, sessions_started,
                   now, parserVars, startupVars>>

\* send_chat_action raises: on to the except clause
TypingFails(t) ==
    /\ turn[t].pc = "typing"
    /\ Raise(1)
    /\ turn' = [turn EXCEPT ![t].pc = OnException, ![t].failed = TRUE]
    /\ UNCHANGED <<supabase, users, plan_history, conversation_history, chat_session,
                   sessions_started, now, turns_started, parserVars, startupVars>>

\* line 243: model.start_chat() raises
SessionFails(t) ==
    /\ turn[t].pc = "typing"
    /\ chat_session[turn[t].user_id] = 0
    /\ Raise(1)
    /\ turn' = [turn EXCEPT ![t].pc = OnException, ![t].failed = TRUE]
    /\ UNCHANGED <<supabase, users, plan_history, conversation_history, chat_session,
                   sessions_started, now, turns_started, parserVars, startupVars>>

\* lines 242-270, no session yet: start one, load the profile, build the
\* priming context, send the first message
CreateSession(t, select_ok) ==
    LET user_id == turn[t].user_id
        user_message == turn[t].user_message
        user_data == _load_profile(user_id, select_ok)
        initial_prompt == InitialPrompt(user_data, user_message)
    IN  /\ turn[t].pc = "typing"
        /\ chat_session[user_id] = 0
        /\ Raise(B2N(select_ok))
        /\ sessions_started' = sessions_started + 1
        /\ chat_session' = StoreSession(chat_session, user_id, sessions_started + 1)
        /\ turn' = [turn EXCEPT ![t].pc = "engine", ![t].created = TRUE,
                                ![t].user_data = user_data,
                                ![t].load_error = ~select_ok,
                                ![t].initial_prompt = initial_prompt,
                                ![t].sent = FirstMessage(initial_prompt, user_message)]
        /\ UNCHANGED <<supabase, users, plan_history, conversation_history, now,
                       turns_started, parserVars, startupVars>>

\* lines 242-244 and 275-282, the session exists: send the message
UseSession(t) ==
    /\ turn[t].pc = "typing"
    /\ chat_session[turn[t].user_id] # 0
    /\ turn' = [turn EXCEPT ![t].pc = "engine",
                            ![t].sent = LaterMessage(turn[t].user_message)]
    /\ UNCHANGED <<supabase, users, plan_history, conversation_history, chat_session,
                   sessions_started, now, turns_started, faults, parserVars, startupVars>>

\* send_message_async or response.text raises
EngineFails(t) ==
    /\ turn[t].pc = "engine"
    /\ Raise(1)
    /\ turn' = [turn EXCEPT ![t].pc = OnException, ![t].failed = TRUE]
    /\ UNCHANGED <<supabase, users, plan_history, conversation_history, chat_session,
                   sessions_started, now, turns_started, parserVars, startupVars>>

\* lines 284-300, up to the await of reply_text
EngineReplies(t, ai_message, insert_ok, outcome) ==
    LET user_id == turn[t].user_id
        branch == Interpretation[ai_message].branch
        profile_json == Interpretation[ai_message].profile_json
        plan_text == Interpretation[ai_message].plan_text
        reply == Interpretation[ai_message].reply
    IN  /\ turn[t].pc = "engine"
        /\ Raise(B2N(insert_ok) + B2N(outcome = "ok"))
        /\ conversation_history' = _log_conversation(user_id, "ai", ai_message, insert_ok)
        /\ IF branch = "plan"
           THEN /\ save_new_plan_and_profile(user_id, profile_json[1], plan_text, outcome)
                /\ turn' = [turn EXCEPT ![t].pc = AfterPersistence(insert_ok, outcome),
                                ![t].ai_message = ai_message,
                                ![t].logged = Logged(@, "ai", insert_ok),
                                ![t].log_errors = @ + B2N(insert_ok),
                                ![t].branch = branch,
                                ![t].profile_json = profile_json,
                                ![t].plan_text = plan_text,
                                ![t].save_calls = @ + 1,
                                ![t].requests = @ \o SaveRequests(profile_json[1], outcome),
                                ![t].saved = Saved(profile_json[1], outcome),
                                ![t].reply = reply]
           ELSE /\ outcome = "ok"
                /\ turn' = [turn EXCEPT ![t].pc = AfterPersistence(insert_ok, outcome),
                                ![t].ai_message = ai_message,
                                ![t].logged = Logged(@, "ai", insert_ok),
                                ![t].log_errors = @ + B2N(insert_ok),
                                ![t].branch = branch,
                                ![t].profile_json =
                                    IF branch = "fallback" THEN profile_json ELSE None,
                                ![t].reply = reply]
                /\ UNCHANGED <<users, plan_history, now>>
        /\ UNCHANGED <<supabase, chat_session, sessions_started, turns_started, parserVars, startupVars>>

\* reply_text of lines 291, 298, 300 returns or raises
Reply(t, delivered) ==
    /\ turn[t].pc = "reply"
    /\ Raise(B2N(delivered))
    /\ turn' = IF delivered
               THEN [turn EXCEPT ![t].pc = "done", ![t].replies = Append(@, turn[t].reply)]
               ELSE [turn EXCEPT ![t].pc = OnException, ![t].failed = TRUE]
    /\ UNCHANGED <<supabase, users, plan_history, conversation_history, chat_session,
                   sessions_started, now, turns_started, parserVars, startupVars>>

\* lines 302-306: the except clause replies with the apology, which may raise too
Apologise(t, delivered) ==
    /\ turn[t].pc = "apology"
    /\ Raise(B2N(delivered))
    /\ turn' = IF delivered
               THEN [turn EXCEPT ![t].pc = "done", ![t].replies = Append(@, APOLOGY)]
               ELSE [turn EXCEPT ![t].pc = "done", ![t].raised = TRUE]
    /\ UNCHANGED <<supabase, users, plan_history, conversation_history, chat_session,
                   sessions_started, now, turns_started, parserVars, startupVars>>

\* the coroutine is over
Return(t) ==
    /\ turn[t].pc = "done"
    /\ turn' = [turn EXCEPT ![t] = IdleTurn]
    /\ UNCHANGED <<supabase, users, plan_history, conversation_history, chat_session,
                   sessions_started, now, turns_started, faults, parserVars, startupVars>>

\* reset_chat: context.user_data.clear()
reset_chat(user_id) ==
    /\ chat_session[user_id] # 0
    /\ chat_session' = ClearUserData(chat_session, user_id)
    /\ UNCHANGED <<supabase, users, plan_history, conversation_history,
                   sessions_started, now, turn, turns_started, faults, parserVars, startupVars>>

NotParsed == [done |-> {}, profile_json |-> None, plan_text |-> <<>>]

\* lines 33-36: the four values read from the environment
EnvNames == {"TELEGRAM_TOKEN", "GEMINI_API_KEY", "SUPABASE_URL", "SUPABASE_SERVICE_KEY"}

\* the bot is polling, with every value of .env set; create_client may have failed
Init ==
    /\ env = [k \in EnvNames |-> TRUE]
    /\ model = TRUE
    /\ process = "polling"
    /\ supabase \in BOOLEAN
    /\ users = [u \in Users |-> None]
    /\ plan_history = <<>>
    /\ conversation_history = EmptyBag
    /\ chat_session = [u \in Users |-> 0]
    /\ sessions_started = 0
    /\ now = 0
    /\ turn = [t \in TurnSlots |-> IdleTurn]
    /\ turns_started = 0
    /\ faults = 0
    /\ text = <<>>
    /\ parsed = NotParsed

\* Application.builder().token(..).build() handles one update at a time
Next ==
    \/ \E u \in Users, m \in UserMessages, ok \in BOOLEAN :
           (supabase \/ ok) /\ Start(1, u, m, ok)
    \/ TypingFails(1)
    \/ SessionFails(1)
    \/ \E ok \in BOOLEAN : (supabase \/ ok) /\ CreateSession(1, ok)
    \/ UseSession(1)
    \/ EngineFails(1)
    \/ \E r \in Responses, ok \in BOOLEAN, o \in SaveOutcomes :
           (supabase \/ (ok /\ o = "ok")) /\ EngineReplies(1, r, ok, o)
    \/ \E ok \in BOOLEAN : Reply(1, ok)
    \/ \E ok \in BOOLEAN : Apologise(1, ok)
    \/ Return(1)
    \/ \E u \in Users : turn[1].pc = "idle" /\ reset_chat(u)

Spec == Init /\ [][Next]_vars

(***************************************************************************)
(* The handler under concurrent dispatch: two invocations in flight, each  *)
(* suspended at its awaits (send_chat_action, send_message_async,          *)
(* reply_text), resumed in any order                                       *)
(***************************************************************************)
ConcurrentSlots == {1, 2}

InFlight(t) == turn[t].pc # "idle"

ConcurrentInit ==
    /\ env = [k \in EnvNames |-> TRUE]
    /\ model = TRUE
    /\ process = "polling"
    /\ supabase \in BOOLEAN
    /\ users = [u \in Users |-> None]
    /\ plan_history = <<>>
    /\ conversation_history = EmptyBag
    /\ chat_session = [u \in Users |-> 0]
    /\ sessions_started = 0
    /\ now = 0
    /\ turn = [t \in ConcurrentSlots |-> IdleTurn]
    /\ turns_started = 0
    /\ faults = 0
    /\ text = <<>>
    /\ parsed = NotParsed

\* the answers of the engine here: one without the terminal marker, one plan
ConcurrentResponses ==
    { <<"U", "L", "Kn", "1", "R", "2">>,
      <<"U", "SP", "L", "Kn", "1", "C", "Ku", "2", "R", "SP", "2", "E">> }

\* /reset comes between the user's turns, not while one is in flight; the
\* inserts and the save succeed (Spec has their failures), while the select
\* of _load_profile, the engine and the chat platform may fail
ConcurrentNext ==
    \/ \E t \in ConcurrentSlots, u \in Users, m \in UserMessages :
           Start(t, u, m, TRUE)
    \/ \E t \in ConcurrentSlots : TypingFails(t)
    \/ \E t \in ConcurrentSlots : SessionFails(t)
    \/ \E t \in ConcurrentSlots, ok \in BOOLEAN : (supabase \/ ok) /\ CreateSession(t, ok)
    \/ \E t \in ConcurrentSlots : UseSession(t)
    \/ \E t \in ConcurrentSlots : EngineFails(t)
    \/ \E t \in ConcurrentSlots, r \in ConcurrentResponses :
           EngineReplies(t, r, TRUE, "ok")
    \/ \E t \in ConcurrentSlots, ok \in BOOLEAN : Reply(t, ok)
    \/ \E t \in ConcurrentSlots, ok \in BOOLEAN : Apologise(t, ok)
    \/ \E t \in ConcurrentSlots : Return(t)
    \/ \E u \in Users :
           /\ \A t \in ConcurrentSlots : InFlight(t) => turn[t].user_id # u
           /\ reset_chat(u)

SpecConcurrent == ConcurrentInit /\ [][ConcurrentNext]_vars

(***************************************************************************)
(* Startup: the module's __main__ block, __init__ and run, for every       *)
(* combination of set and unset values of .env, followed by the bot        *)
(***************************************************************************)
\* lines 334-338: the test of the two tokens
main ==
    /\ process = "main"
    /\ process' = IF ~env["TELEGRAM_TOKEN"] \/ ~env["GEMINI_API_KEY"]
                  THEN "exited" ELSE "__init__"
    /\ UNCHANGED <<botVars, parserVars, env, model>>

\* lines 84-110: the Supabase client and the Gemini model
__init__(create_client_ok, configure_ok) ==
    /\ process = "__init__"
    /\ supabase' = IF ~env["SUPABASE_URL"] \/ ~env["SUPABASE_SERVICE_KEY"]
                   THEN FALSE ELSE create_client_ok
    /\ model' = configure_ok
    /\ process' = "run"
    /\ UNCHANGED <<users, plan_history, conversation_history, chat_session,
                   sessions_started, now, turn, turns_started, faults, parserVars, env>>

\* lines 316-330: run() returns without a model, else polls
run ==
    /\ process = "run"
    /\ process' = IF ~model THEN "exited" ELSE "polling"
    /\ UNCHANGED <<botVars, parserVars, env, model>>

StartupInit ==
    /\ env \in [EnvNames -> BOOLEAN]
    /\ model = FALSE
    /\ process = "main"
    /\ supabase = FALSE
    /\ users = [u \in Users |-> None]
    /\ plan_history = <<>>
    /\ conversation_history = EmptyBag
    /\ chat_session = [u \in Users |-> 0]
    /\ sessions_started = 0
    /\ now = 0
    /\ turn = [t \in TurnSlots |-> IdleTurn]
    /\ turns_started = 0
    /\ faults = 0
    /\ text = <<>>
    /\ parsed = NotParsed

StartupNext ==
    \/ main
    \/ \E create_client_ok \in BOOLEAN, configure_ok \in BOOLEAN :
           __init__(create_client_ok, configure_ok)
    \/ run
    \/ process = "polling" /\ Next

SpecStartup == StartupInit /\ [][StartupNext]_vars

(***************************************************************************)
(* The response parser alone, on every text of a bounded set               *)
(***************************************************************************)
Alphabet == {"U", "E", "L", "R", "Kn", "1", "Q", "SP"}

BoundedTexts == UNION {[1..n -> Alphabet] : n \in 0..MaxLen}

ParserInputs ==
    BoundedTexts
        \cup {USER_DATA_JSON \o t \o END_OF_PLAN : t \in BoundedTexts}
        \cup Responses
        \cup { <<"U", "L", "Kn", "L", "Kn", "1", "R", "R", "2", "E">>,
               <<"U", "L", "Kn", "Q", "R", "Q", "R", "2", "E">> }

ExtractProfileJson ==
    /\ "profile_json" \notin parsed.done
    /\ parsed' = [parsed EXCEPT !.done = @ \cup {"profile_json"},
                                !.profile_json = _extract_profile_json(text)]
    /\ UNCHANGED <<text, botVars, startupVars>>

ExtractPlanText ==
    /\ "plan_text" \notin parsed.done
    /\ parsed' = [parsed EXCEPT !.done = @ \cup {"plan_text"},
                                !.plan_text = _extract_plan_text(text)]
    /\ UNCHANGED <<text, botVars, startupVars>>

ParserInit ==
    /\ env = [k \in EnvNames |-> TRUE]
    /\ model = TRUE
    /\ process = "polling"
    /\ supabase = FALSE
    /\ users = [u \in Users |-> None]
    /\ plan_history = <<>>
    /\ conversation_history = EmptyBag
    /\ chat_session = [u \in Users |-> 0]
    /\ sessions_started = 0
    /\ now = 0
    /\ turn = [t \in TurnSlots |-> IdleTurn]
    /\ turns_started = 0
    /\ faults = 0
    /\ text \in ParserInputs
    /\ parsed = NotParsed

ParserNext == ExtractProfileJson \/ ExtractPlanText

SpecParser == ParserInit /\ [][ParserNext]_vars

(***************************************************************************)
(* What the output contract calls the payload: the first payload marker    *)
(* that is followed, after optional whitespace, by a well-formed object    *)
(***************************************************************************)
PayloadStarts(s) ==
    {i \in 1..Len(s) :
        /\ s[i] = "U"
        /\ LET j == SkipSpace(s, i + 1)
           IN  j <= Len(s) /\ s[j] = "L" /\ ValueEnd(s, j) # 0}

HasPayload(s) == PayloadStarts(s) # {}

PayloadObject(s) == ObjectDict(s, SkipSpace(s, Min(PayloadStarts(s)) + 1))

\* s without the payload marker and its object, without terminal markers, trimmed
PlanBody(s) ==
    LET i == Min(PayloadStarts(s))
        e == ValueEnd(s, SkipSpace(s, i + 1))
    IN  strip(replace(SubSeq(s, 1, i - 1) \o SubSeq(s, e, Len(s)), END_OF_PLAN))

(***************************************************************************)
(* C3: for every text with the terminal marker and a well-formed object    *)
(* after the payload marker, _extract_profile_json returns that object;    *)
(* it returns None when the marker is absent or the span does not parse.   *)
(***************************************************************************)
C3_ExtractsEveryValidObject ==
    "profile_json" \in parsed.done =>
        /\ (Contains(text, END_OF_PLAN) /\ HasPayload(text))
               => parsed.profile_json = Some(PayloadObject(text))
        /\ ~HasPayload(text) => parsed.profile_json = None

(***************************************************************************)
(* C4: for every text with the terminal marker and a well-formed object    *)
(* after the payload marker, _extract_plan_text returns the text without   *)
(* the terminal markers, the payload marker and the object, trimmed, so    *)
(* that no marker is left; with no payload span it returns the text        *)
(* without the terminal marker, trimmed.                                   *)
(***************************************************************************)
C4_PlanBodyHasNoMarkerNorPayload ==
    "plan_text" \in parsed.done =>
        /\ (Contains(text, END_OF_PLAN) /\ HasPayload(text))
               => /\ parsed.plan_text = PlanBody(text)
                  /\ ~Contains(parsed.plan_text, END_OF_PLAN)
                  /\ ~Contains(parsed.plan_text, USER_DATA_JSON)
        /\ re_search(text) = None
               => parsed.plan_text = strip(replace(text, END_OF_PLAN))

(***************************************************************************)
(* Claims about the bot                                                    *)
(***************************************************************************)
RowsOf(user_id) == {i \in DOMAIN plan_history : plan_history[i].user_id = user_id}

\* the handler has read the engine's answer
Interpreted(t) == turn[t].branch # "none"

(***************************************************************************)
(* C1: in every reachable state of the store, whatever turns, resets and   *)
(* saves (failing ones included) came before, each user has at most one    *)
(* plan_history row whose end_date is null.                                *)
(***************************************************************************)
C1_AtMostOneOpenPlan ==
    \A u \in Users : Cardinality(OpenPlans(plan_history, u)) <= 1

C1_Witness ==
    \E u \in Users :
        /\ Cardinality(RowsOf(u)) >= 2
        /\ Cardinality(OpenPlans(plan_history, u)) = 1

(***************************************************************************)
(* C2: after a save in which no step fails, and so after the second of two *)
(* such saves in succession for one user, exactly one row of that user has *)
(* a null end_date, it is the row that call inserted, and every other row  *)
(* of the user, the earlier call's row included, has an end_date.          *)
(***************************************************************************)
C2_SaveLeavesOnlyItsRowOpen ==
    \A t \in TurnSlots :
        turn[t].saved =>
            LET u == turn[t].user_id
                n == Len(plan_history)
            IN  /\ n >= 1
                /\ OpenPlans(plan_history, u) = {n}
                /\ plan_history[n].plan_text = turn[t].plan_text
                /\ plan_history[n].start_date = now
                /\ \A i \in RowsOf(u) \ {n} : plan_history[i].end_date # NULL

\* the second of two saves: the row of the first one was closed by this call
C2_Witness ==
    \E t \in TurnSlots :
        /\ turn[t].saved
        /\ \E i \in RowsOf(turn[t].user_id) :
               /\ i < Len(plan_history)
               /\ plan_history[i].end_date = now
               /\ plan_history[i].start_date < now

(***************************************************************************)
(* C5: whenever the answer holds the terminal marker and an object is      *)
(* parsed after the payload marker, whatever its fields and also when it   *)
(* has none, the turn calls save_new_plan_and_profile once with that       *)
(* object and the plan body and replies with the plan body; after a save   *)
(* without failure the user has the payload as profile and one open row    *)
(* with that text.                                                         *)
(***************************************************************************)
C5_EveryParsedPayloadIsSaved ==
    \A t \in TurnSlots :
        LET ai == turn[t].ai_message
            u == turn[t].user_id
        IN  (/\ Interpreted(t)
             /\ Contains(ai, END_OF_PLAN)
             /\ _extract_profile_json(ai) # None)
            => /\ turn[t].save_calls = 1
               /\ turn[t].profile_json = _extract_profile_json(ai)
               /\ turn[t].plan_text = _extract_plan_text(ai)
               /\ turn[t].reply = turn[t].plan_text
               /\ turn[t].saved =>
                      /\ users[u] # None
                      /\ \A k \in DOMAIN turn[t].profile_json[1] \ {"Ku"} :
                             /\ k \in DOMAIN users[u][1]
                             /\ users[u][1][k] = turn[t].profile_json[1][k]
                      /\ \E i \in DOMAIN plan_history :
                             /\ OpenPlans(plan_history, u) = {i}
                             /\ plan_history[i].plan_text = turn[t].plan_text

(***************************************************************************)
(* C6: for an answer with the terminal marker whose payload is missing or  *)
(* does not parse, the reply is the answer without the terminal marker,    *)
(* trimmed, and the turn issues no upsert, no close and no insert.         *)
(***************************************************************************)
NoValidPayload(t) ==
    /\ Interpreted(t)
    /\ Contains(turn[t].ai_message, END_OF_PLAN)
    /\ ~HasPayload(turn[t].ai_message)

C6_FallbackState ==
    \A t \in TurnSlots :
        NoValidPayload(t) =>
            /\ turn[t].branch = "fallback"
            /\ turn[t].reply = strip(replace(turn[t].ai_message, END_OF_PLAN))
            /\ turn[t].replies \in {<<>>, <<turn[t].reply>>, <<APOLOGY>>}
            /\ turn[t].save_calls = 0
            /\ turn[t].requests = <<>>

C6_FallbackStep ==
    \A t \in TurnSlots :
        (turn[t].pc = "engine" /\ turn'[t].branch = "fallback")
            => UNCHANGED <<users, plan_history, now>>

C6_FallbackRepliesWithoutSaving == []C6_FallbackState /\ [][C6_FallbackStep]_vars

C6_Witness ==
    \E t \in TurnSlots :
        /\ NoValidPayload(t)
        /\ Contains(turn[t].ai_message, USER_DATA_JSON)
        /\ OpenPlans(plan_history, turn[t].user_id) # {}
        /\ turn[t].pc = "done"
        /\ turn[t].replies = <<turn[t].reply>>

(***************************************************************************)
(* C7: for an answer without the terminal marker, also one that holds the  *)
(* payload marker, the reply is the answer unchanged and the turn leaves   *)
(* users and every plan_history row as they were; an open plan stays open. *)
(***************************************************************************)
NoTerminalMarker(t) ==
    Interpreted(t) /\ ~Contains(turn[t].ai_message, END_OF_PLAN)

C7_PlainState ==
    \A t \in TurnSlots :
        NoTerminalMarker(t) =>
            /\ turn[t].reply = turn[t].ai_message
            /\ turn[t].replies \in {<<>>, <<turn[t].ai_message>>, <<APOLOGY>>}
            /\ turn[t].save_calls = 0
            /\ turn[t].requests = <<>>

\* users and plan_history change only in the step that reads an answer
\* with the terminal marker
C7_PlainStep ==
    (users' # users \/ plan_history' # plan_history)
        => \E t \in TurnSlots :
               /\ turn[t].pc = "engine"
               /\ Interpreted(t)'
               /\ Contains(turn'[t].ai_message, END_OF_PLAN)

C7_PlainAnswerChangesNothing == []C7_PlainState /\ [][C7_PlainStep]_vars

C7_Witness ==
    \E t \in TurnSlots :
        /\ NoTerminalMarker(t)
        /\ Contains(turn[t].ai_message, USER_DATA_JSON)
        /\ turn[t].pc = "done"
        /\ turn[t].replies = <<turn[t].ai_message>>
        /\ OpenPlans(plan_history, turn[t].user_id) # {}

(***************************************************************************)
(* C8: on the turn that creates the session the priming context is the     *)
(* new-user one exactly when _load_profile returned no profile (no row,    *)
(* storage unconfigured, or a failed select) and the returning-user one,   *)
(* embedding the stored profile and the last open plan text, exactly when  *)
(* it returned one.                                                        *)
(***************************************************************************)
IsNewUserPrompt(p) == p # <<>> /\ Head(p) = "SYSTEM_NOTE: Brand new user."

IsReturningPrompt(p) == p # <<>> /\ Head(p) = "SYSTEM_NOTE: Returning user. Profile:"

LastOpenPlanText(user_id) ==
    IF OpenPlans(plan_history, user_id) = {} THEN NO_PREVIOUS_PLAN
    ELSE plan_history[CHOOSE i \in OpenPlans(plan_history, user_id) : TRUE].plan_text

C8_PrimingFollowsLoadedProfile ==
    \A t \in TurnSlots :
        turn[t].created =>
            LET u == turn[t].user_id
                ud == turn[t].user_data
                p == turn[t].initial_prompt
            IN  /\ (ud = None) <=> IsNewUserPrompt(p)
                /\ (ud # None) <=> IsReturningPrompt(p)
                /\ ud # None =>
                       /\ Contains(p, json_dumps(ud[1].profile))
                       /\ Contains(p, ud[1].last_plan)
                /\ (turn[t].pc = "engine" /\ ud # None) =>
                       /\ supabase
                       /\ users[u] # None
                       /\ ud[1].profile = users[u][1]
                       /\ ud[1].last_plan = LastOpenPlanText(u)
                /\ (turn[t].pc = "engine" /\ ud = None) =>
                       \/ ~supabase
                       \/ users[u] = None
                       \/ faults > 0

C8_Witness ==
    \E t \in TurnSlots :
        /\ turn[t].created
        /\ turn[t].pc = "engine"
        /\ turn[t].user_data # None
        /\ turn[t].user_data[1].last_plan # NO_PREVIOUS_PLAN
        /\ IsReturningPrompt(turn[t].initial_prompt)

(***************************************************************************)
(* C9: the first message sent to a newly created engine session contains   *)
(* the priming context chosen for the user.                                *)
(***************************************************************************)
C9_FirstMessageCarriesPriming ==
    \A t \in TurnSlots :
        (turn[t].created /\ turn[t].sent # <<>>)
            => Contains(turn[t].sent, turn[t].initial_prompt)

(***************************************************************************)
(* C10: on every turn that reaches the engine, the one that creates the    *)
(* session and every later one, the message forwarded is the user's raw    *)
(* text followed by an output-contract reminder.                           *)
(***************************************************************************)
C10_EveryMessageCarriesReminder ==
    \A t \in TurnSlots :
        /\ turn[t].pc = "engine" => turn[t].sent # <<>>
        /\ turn[t].sent # <<>> =>
               \E r \in Reminders : turn[t].sent = turn[t].user_message \o r

C10_Witness ==
    \E t \in TurnSlots :
        /\ turn[t].pc = "engine"
        /\ ~turn[t].created
        /\ turn[t].sent = turn[t].user_message \o REMINDER_LATER

(***************************************************************************)
(* C11: a /reset of a user who has a session leaves that user without one, *)
(* and leaves every row of users, plan_history and conversation_history    *)
(* and every other user's session as they were.  Only /reset ends a        *)
(* session: a step that is not part of a turn changes chat_session only    *)
(* that way.                                                               *)
(***************************************************************************)
C11_ResetStep ==
    (chat_session' # chat_session /\ turn' = turn)
        => /\ \E u \in Users :
                  /\ chat_session[u] # 0
                  /\ chat_session'[u] = 0
                  /\ \A v \in Users \ {u} : chat_session'[v] = chat_session[v]
           /\ UNCHANGED <<users, plan_history, conversation_history>>

C11_ResetDiscardsOnlyTheSession == [][C11_ResetStep]_vars

\* user u was reset after a plan was stored, while the other user's session lives
C11_Witness ==
    \E u \in Users, v \in Users :
        /\ u # v
        /\ sessions_started = 2
        /\ chat_session[u] = 0
        /\ chat_session[v] # 0
        /\ users[u] # None
        /\ OpenPlans(plan_history, u) # {}
        /\ conversation_history # EmptyBag

(***************************************************************************)
(* C12: the step of a turn that reaches the engine starts a session and    *)
(* loads the profile exactly when the user has no session at that moment:  *)
(* not on a later message of a live session, also after a turn whose       *)
(* engine call failed, and again after a /reset although the users row is  *)
(* still there.  No other step starts a session, and a failing step of a   *)
(* turn leaves the session in place.                                       *)
(***************************************************************************)
C12_SessionStep ==
    /\ \A t \in TurnSlots :
           (turn[t].pc = "typing" /\ turn'[t].pc = "engine") =>
               LET u == turn[t].user_id
               IN  /\ turn'[t].created <=> chat_session[u] = 0
                   /\ chat_session'[u] # 0
                   /\ chat_session[u] = 0 =>
                          /\ sessions_started' = sessions_started + 1
                          /\ chat_session'[u] = sessions_started'
                   /\ chat_session[u] # 0 =>
                          /\ sessions_started' = sessions_started
                          /\ chat_session' = chat_session
                          /\ turn'[t].user_data = None
                          /\ turn'[t].initial_prompt = <<>>
    /\ sessions_started' # sessions_started =>
           \E t \in TurnSlots : turn[t].pc = "typing" /\ turn'[t].pc = "engine"
    /\ \A t \in TurnSlots :
           turn'[t].pc = "apology" => chat_session' = chat_session

C12_PrimedOncePerSession == [][C12_SessionStep]_vars

\* the first message after a /reset of a user whose profile is stored
C12_Witness ==
    \E t \in TurnSlots :
        /\ turn[t].created
        /\ turn[t].user_data # None
        /\ sessions_started = 2
        /\ chat_session[turn[t].user_id] = 2

(***************************************************************************)
(* C13 as claimed: a turn in which a step after the inbound log failed     *)
(* ends with exactly one reply delivered to the user, the apology.         *)
(***************************************************************************)
C13_FailedTurnDeliversTheApology ==
    \A t \in TurnSlots :
        (turn[t].pc = "done" /\ turn[t].failed) => turn[t].replies = <<APOLOGY>>

(***************************************************************************)
(* C13 as amended: after a failed step the handler makes one more          *)
(* reply_text call, with the fixed apology text; the user receives at most *)
(* one reply for the turn, the apology when that call delivers it and none *)
(* when that call raises too; the engine is not called again.              *)
(***************************************************************************)
C13_FailedState ==
    \A t \in TurnSlots :
        /\ Len(turn[t].replies) <= 1
        /\ turn[t].failed =>
               /\ turn[t].pc \in {"apology", "done"}
               /\ turn[t].pc = "apology" => turn[t].replies = <<>>
               /\ turn[t].pc = "done" =>
                      IF turn[t].raised THEN turn[t].replies = <<>>
                      ELSE turn[t].replies = <<APOLOGY>>
        /\ (turn[t].pc = "done" /\ ~turn[t].failed) =>
               turn[t].replies = <<turn[t].reply>>

C13_FailedStep ==
    \A t \in TurnSlots :
        turn[t].failed =>
            \/ turn'[t] = turn[t]
            \/ turn'[t] = IdleTurn
            \/ /\ turn[t].pc = "apology"
               /\ turn'[t].pc = "done"
               /\ turn'[t].sent = turn[t].sent
               /\ turn'[t].ai_message = turn[t].ai_message

C13_FailureEndsInOneApologyAttempt == []C13_FailedState /\ [][C13_FailedStep]_vars

\* the reply could not be delivered and the apology was
C13_Witness ==
    \E t \in TurnSlots :
        /\ turn[t].pc = "done"
        /\ turn[t].failed
        /\ turn[t].reply # <<>>
        /\ turn[t].replies = <<APOLOGY>>

(***************************************************************************)
(* C14: the text handed to reply_text depends on the engine's answer only: *)
(* whether the insert of the 'ai' row or any request of the save raises,   *)
(* the handler goes on to the same reply, never to the apology; a failed   *)
(* insert of the 'user' row lets the turn go on as well.                   *)
(***************************************************************************)
C14_ReplyState ==
    \A t \in TurnSlots :
        Interpreted(t) =>
            /\ turn[t].reply = ReplyText(turn[t].ai_message)
            /\ (turn[t].pc = "done" /\ ~turn[t].failed) =>
                   turn[t].replies = <<turn[t].reply>>

C14_PersistenceStep ==
    \A t \in TurnSlots :
        /\ (turn[t].pc = "engine" /\ turn'[t].ai_message # <<>>) =>
               /\ turn'[t].pc = "reply"
               /\ ~turn'[t].failed
        /\ (turn[t].pc = "idle" /\ turn'[t].pc # "idle") =>
               /\ turn'[t].pc = "typing"
               /\ ~turn'[t].failed

C14_PersistenceFailureKeepsTheReply == []C14_ReplyState /\ [][C14_PersistenceStep]_vars

\* the plan body was delivered although the 'ai' row and the save both failed
C14_Witness ==
    \E t \in TurnSlots :
        /\ supabase
        /\ turn[t].pc = "done"
        /\ turn[t].branch = "plan"
        /\ turn[t].replies = <<turn[t].plan_text>>
        /\ turn[t].requests # <<>>
        /\ ~turn[t].saved
        /\ \A row \in BagToSet(conversation_history) : row.sender = "user"

(***************************************************************************)
(* C15 as claimed: _load_profile returns 'no profile' without raising when *)
(* the user has no row, and its outcome after a failed request to the      *)
(* store is not the 'no profile' outcome.                                  *)
(***************************************************************************)
C15_LoadErrorIsDistinguishable ==
    \A t \in TurnSlots :
        (turn[t].created /\ turn[t].pc = "engine") =>
            /\ (~turn[t].load_error /\ users[turn[t].user_id] = None) =>
                   turn[t].user_data = None
            /\ turn[t].load_error => turn[t].user_data # None

(***************************************************************************)
(* C15 as amended: _load_profile never raises; it returns None when the    *)
(* user has no row and the same None when a request to the store fails     *)
(* (the error is only logged), and a profile exactly when storage is       *)
(* configured, the request succeeds and the row exists.                    *)
(***************************************************************************)
C15_LoadState ==
    \A t \in TurnSlots :
        (turn[t].created /\ turn[t].pc = "engine") =>
            LET u == turn[t].user_id
            IN  /\ ~turn[t].failed
                /\ users[u] = None => turn[t].user_data = None
                /\ turn[t].load_error => turn[t].user_data = None
                /\ ~supabase => turn[t].user_data = None
                /\ (supabase /\ ~turn[t].load_error /\ users[u] # None) =>
                       /\ turn[t].user_data # None
                       /\ turn[t].user_data[1].profile = users[u][1]

C15_LoadStep ==
    \A t \in TurnSlots :
        (turn[t].pc = "typing" /\ turn'[t].created) => turn'[t].pc = "engine"

C15_LoadErrorIsReportedAsNoProfile == []C15_LoadState /\ [][C15_LoadStep]_vars

\* the row exists and the request failed: the outcome is that of a new user
C15_Witness ==
    \E t \in TurnSlots :
        /\ turn[t].created
        /\ turn[t].pc = "engine"
        /\ turn[t].load_error
        /\ users[turn[t].user_id] # None
        /\ turn[t].user_data = None

(***************************************************************************)
(* C16: the process polls for updates only when the chat-platform token,   *)
(* the model-engine key, the storage URL and the storage key are all set.  *)
(***************************************************************************)
C16_PollingNeedsAllFourValues ==
    process = "polling" => \A k \in EnvNames : env[k]

(***************************************************************************)
(* C17: with storage configured and no insert failing, a turn has inserted *)
(* one row with sender 'user' for its message and, when it is over, a row  *)
(* with sender 'ai' for every reply it delivered, the apology included.    *)
(***************************************************************************)
RowsLogged(t, sender) ==
    Cardinality({i \in DOMAIN turn[t].logged : turn[t].logged[i] = sender})

C17_EveryMessageIsLogged ==
    \A t \in TurnSlots :
        (supabase /\ turn[t].pc # "idle" /\ turn[t].log_errors = 0) =>
            /\ RowsLogged(t, "user") = 1
            /\ [user_id |-> turn[t].user_id, sender |-> "user",
                message_text |-> turn[t].user_message] \in BagToSet(conversation_history)
            /\ turn[t].pc = "done" => RowsLogged(t, "ai") >= Len(turn[t].replies)

\* rows are only ever added
C17_AppendOnly == [][conversation_history \sqsubseteq conversation_history']_vars

(***************************************************************************)
(* C18: when two turns of one user are in flight and both have passed the  *)
(* session step, whatever the order in which they were resumed, the user   *)
(* has one session, at most one of the two turns started a session and     *)
(* loaded the profile, and a turn does so exactly when the user has no     *)
(* session at the moment it is resumed: the first one when there was none. *)
(***************************************************************************)
PastSessionStep(t) == turn[t].sent # <<>>

C18_OneWinner ==
    \A t1 \in ConcurrentSlots, t2 \in ConcurrentSlots :
        (/\ t1 # t2
         /\ turn[t1].user_id = turn[t2].user_id
         /\ PastSessionStep(t1)
         /\ PastSessionStep(t2))
        => /\ chat_session[turn[t1].user_id] # 0
           /\ ~(turn[t1].created /\ turn[t2].created)
           /\ ~(turn[t1].load_error /\ turn[t2].load_error)
           /\ ~(turn[t1].initial_prompt # <<>> /\ turn[t2].initial_prompt # <<>>)

C18_SessionStep ==
    \A t \in ConcurrentSlots :
        (turn[t].pc = "typing" /\ turn'[t].pc = "engine") =>
            LET u == turn[t].user_id
            IN  /\ turn'[t].created <=> chat_session[u] = 0
                /\ sessions_started' =
                       IF chat_session[u] = 0 THEN sessions_started + 1 ELSE sessions_started
                /\ chat_session'[u] # 0

C18_ConcurrentTurnsCreateOneSession == []C18_OneWinner /\ [][C18_SessionStep]_vars

\* the first two turns, of one user, both waiting for the engine
C18_Witness ==
    \E u \in Users :
        /\ turns_started = 2
        /\ sessions_started = 1
        /\ chat_session[u] = 1
        /\ \A t \in ConcurrentSlots :
               /\ turn[t].user_id = u
               /\ turn[t].pc = "engine"
        /\ turn[2].created
        /\ ~turn[1].created

(***************************************************************************)
(* C19: a call of save_new_plan_and_profile, also one in which a request   *)
(* fails, closes an open plan of the user only if the same call inserts a  *)
(* new open row for that user.                                             *)
(***************************************************************************)
C19_CloseStep ==
    \A i \in DOMAIN plan_history :
        (plan_history[i].end_date = NULL /\ plan_history'[i].end_date # NULL) =>
            LET n == Len(plan_history')
            IN  /\ n = Len(plan_history) + 1
                /\ plan_history'[n].user_id = plan_history[i].user_id
                /\ plan_history'[n].end_date = NULL

C19_CloseAndInsertAreOneUnit == [][C19_CloseStep]_vars

(***************************************************************************)
(* C20: every users row is stored under the user_id it holds, and a step   *)
(* that writes the users row of a user, or closes or inserts a             *)
(* plan_history row of a user, belongs to a turn of that user, whatever    *)
(* user_id the payload of the answer holds.                                *)
(***************************************************************************)
PlansOf(ph, user_id) == {<<i, ph[i]>> : i \in {j \in DOMAIN ph : ph[j].user_id = user_id}}

C20_KeyedState ==
    \A u \in Users : users[u] # None => users[u][1]["Ku"] = <<u>>

C20_WriteStep ==
    \A b \in Users :
        (users'[b] # users[b] \/ PlansOf(plan_history', b) # PlansOf(plan_history, b))
            => \E t \in TurnSlots : turn[t].pc = "engine" /\ turn[t].user_id = b

C20_WritesAreKeyedBySender == []C20_KeyedState /\ [][C20_WriteStep]_vars

\* user 1 saved a plan whose payload names user 2: nothing of user 2 was written
C20_Witness ==
    \E t \in TurnSlots :
        /\ turn[t].saved
        /\ turn[t].user_id = "1"
        /\ turn[t].profile_json[1]["Ku"] = <<"2">>
        /\ users["1"] # None
        /\ users["1"][1]["Ku"] = <<"1">>
        /\ users["2"] = None
        /\ PlansOf(plan_history, "2") = {}
        /\ PlansOf(plan_history, "1") # {}

====
